---- MODULE Spec2Model ----
(***************************************************************************)
(* Model of wiki-utils: the Cached store (in-memory tag -> key -> value    *)
(* cache, JSON file persistence, lock-guarded sync_with_file), the         *)
(* cached_method decorator, and WikiClient's category walk.                *)
(***************************************************************************)
EXTENDS Integers, Sequences, FiniteSets, TLC

VARIABLES
    mem,        \* mem[p]: the _cache of store p (a dict tag -> dict key -> value)
    file,       \* the cache file: [exists, data] (data: the parsed JSON object)
    pc,         \* pc[p]: "new", "idle", or the position inside sync_with_file
    lock,       \* holder of the FileLock on <file>.lock, or "free"
    syncTag,    \* syncTag[p]: the tag argument of p's running sync_with_file
    acq,        \* acq[p]: p's _cache and the file when p acquired the lock
    lastSync,   \* the last completed sync_with_file: who ran it, on which _cache
    nSyncs,     \* number of sync_with_file calls started
    nPuts,      \* number of _cache_put calls made directly
    lastOp,     \* the last operation on a store: its arguments, the _cache before
    lastSave,   \* the _cache the file was last written from by save_cache_to_file
    nOps,       \* number of get / merge / load / save operations made
    lastCall,   \* the last call of a cached_method: key, outcome, invoked or not
    returned,   \* the value each (store, tag, call) last returned successfully
    nCalls,     \* number of cached_method calls made
    lastLookup, \* the last country lookup: what it called and what it returned
    cache_filepath, \* cache_filepath[p]: the path store p was constructed with
    wpc,        \* position of get_entity_category: "idle", "walking", "done", ...
    Q,          \* the deque of get_super_class_from
    result,     \* the value get_entity_category returned
    graph,      \* the claims the API serves: [inst, sub], QID -> list of QIDs
    candidates, \* the terminal categories passed to get_entity_category
    nFetch      \* number of P279 requests get_super_class_from made

storeVars == <<mem, file, pc>>
syncVars == <<lock, syncTag, acq, lastSync, nSyncs>>
histVars == <<lastOp, lastSave, nOps>>
memoVars == <<lastCall, returned, nCalls>>
auxVars == <<lastLookup, cache_filepath>>
walkVars == <<wpc, Q, result, graph, candidates, nFetch>>
vars == <<storeVars, syncVars, nPuts, histVars, memoVars, auxVars, walkVars>>

-----------------------------------------------------------------------------
(* Bounds and the small universes the inputs are drawn from.               *)

MaxPuts == 2
MaxSyncs == 2
MaxOps == 2

Procs == {"p1", "p2"}
Tags == {"t1", "t2"}
Keys == {"k1", "k2"}
NoTag == "None"                     \* Python None passed as a tag / tags

\* Python values are wrapped so that a leaf and a nested dict are comparable.
Plain(s) == [val |-> s]
IsPlain(v) == DOMAIN v = {"val"}
PyNone == Plain("None")
\* a list of QIDs, as get_entity_prop returns it
ListOf(qids) == [list |-> qids]
IsList(v) == DOMAIN v = {"list"}
PutValues == {Plain("a"), Plain("b")}

EmptyDict == << >>
EmptyCache == << >>

\* Iterating a Python str yields its characters.
Chars(s) ==
    CASE s = "t1" -> {"t", "1"}
      [] s = "t2" -> {"t", "2"}
      [] OTHER -> {s}

-----------------------------------------------------------------------------
(* dict and defaultdict(dict) primitives.                                  *)

\* dict.update(inc): incoming keys win, the other keys stay.
DictUpdate(d, inc) ==
    [k \in DOMAIN d \cup DOMAIN inc |-> IF k \in DOMAIN inc THEN inc[k] ELSE d[k]]

\* dict.get(k, default)
DictGet(d, k, default) == IF k \in DOMAIN d THEN d[k] ELSE default

\* defaultdict(dict).__getitem__: a missing tag is created as an empty dict.
Vivify(c, tag) == IF tag \in DOMAIN c THEN c ELSE c @@ (tag :> EmptyDict)

RECURSIVE VivifyAll(_, _)
VivifyAll(c, tags) ==
    IF tags = {} THEN c
    ELSE LET t == CHOOSE x \in tags : TRUE
         IN  VivifyAll(Vivify(c, t), tags \ {t})

\* The (tag, key) pairs and (tag, key, value) entries of a tag -> key -> value
\* structure.
EntryKeys(c) == UNION {{<<t, k>> : k \in DOMAIN c[t]} : t \in DOMAIN c}
Entries(c) == {<<e[1], e[2], c[e[1]][e[2]]>> : e \in EntryKeys(c)}

-----------------------------------------------------------------------------
(* JSON file format.                                                       *)

\* json.dump followed by json.load: objects stay objects, strings and null
\* stay, a tuple comes back as a list.
RECURSIVE JsonValue(_)
JsonValue(v) ==
    IF IsPlain(v) THEN (IF v.val = "tup" THEN Plain("lst") ELSE v)
    ELSE IF IsList(v) THEN v
    ELSE [k \in DOMAIN v |-> JsonValue(v[k])]

\* _write_json: the content the file holds after json.dump(data, fp, sort_keys)
write_json(data) == [exists |-> TRUE, data |-> JsonValue(data)]

\* Cached.read_cache_from_file: json.load of the file
read_cache_from_file(f) == f.data

-----------------------------------------------------------------------------
(* Cached (src/wiki_utils/cache.py).                                       *)

\* Cached._cache_get: self._cache[tag].get(key, None); the defaultdict creates
\* the tag.  Returns the value and the cache after the call.
cache_get(c, tag, key) ==
    [value |-> DictGet(Vivify(c, tag)[tag], key, PyNone), cache |-> Vivify(c, tag)]

\* Cached._cache_put: self._cache[tag][key] = value
cache_put(c, tag, key, value) ==
    [Vivify(c, tag) EXCEPT ![tag] = DictUpdate(@, (key :> value))]

\* Cached.update_cache
update_cache(c, cache_dict, tag) ==
    IF tag # NoTag
    THEN [Vivify(c, tag) EXCEPT ![tag] = DictUpdate(@, cache_dict)]
    ELSE [t \in DOMAIN c |-> DictUpdate(c[t], DictGet(cache_dict, t, EmptyDict))]

\* Cached.update_cache_from_file
update_cache_from_file(c, f, tag) == update_cache(c, read_cache_from_file(f), tag)

\* Cached.update_cache of the first revision (src/cache.py): without a tag,
\* self._cache.update(cache_dict) replaces each incoming tag's dict whole.
update_cache_rev1(c, cache_dict, tag) ==
    IF tag # NoTag
    THEN [Vivify(c, tag) EXCEPT ![tag] = DictUpdate(@, cache_dict)]
    ELSE DictUpdate(c, cache_dict)

\* The `tags` argument of get_caches / save_cache_to_file: None, a collection
\* of tags, or (as sync_with_file and __init__ pass it) a tag str, whose
\* iteration yields its characters.
NoTags == [none |-> TRUE, items |-> {}]
TagList(ts) == [none |-> FALSE, items |-> ts]
TagStr(tag) == IF tag = NoTag THEN NoTags ELSE [none |-> FALSE, items |-> Chars(tag)]

\* Cached.get_caches: tags = tags or self._cache.keys(); a str given as tags is
\* iterated character by character; reading self._cache[tag] creates the tag.
\* Returns the dict built and the cache after the call.
get_caches(c, tags) ==
    LET ts == IF tags.none \/ tags.items = {} THEN DOMAIN c ELSE tags.items
        c2 == VivifyAll(c, ts)
    IN  [out |-> [t \in ts |-> c2[t]], cache |-> c2]

\* Cached.save_cache_to_file with a resolvable filepath: the file written and
\* the cache after the call.
save_cache_to_file(c, tags) ==
    LET r == get_caches(c, tags)
    IN  [file |-> write_json(r.out), cache |-> r.cache]

-----------------------------------------------------------------------------
(* cached_method (src/wiki_utils/cache.py, src/cache.py).                  *)

\* Python argument values: a str, or a tuple of values.
Str(x) == [kind |-> "str", s |-> x, items |-> << >>]
Tup(xs) == [kind |-> "tuple", s |-> "", items |-> xs]

\* repr() and str() of such a value: 'Q1', ('Q1', 'en'), ('Q1',)
RECURSIVE PyRepr(_)
RECURSIVE JoinRepr(_)
PyRepr(v) ==
    IF v.kind = "str" THEN "'" \o v.s \o "'"
    ELSE "(" \o JoinRepr(v.items) \o (IF Len(v.items) = 1 THEN ",)" ELSE ")")
JoinRepr(xs) ==
    IF xs = << >> THEN ""
    ELSE IF Len(xs) = 1 THEN PyRepr(xs[1])
    ELSE PyRepr(xs[1]) \o ", " \o JoinRepr(Tail(xs))
PyStr(v) == IF v.kind = "str" THEN v.s ELSE PyRepr(v)

\* tuple(kwargs.items()): one (name, value) tuple per keyword argument
KwItems(kwargs) == [i \in 1..Len(kwargs) |-> Tup(<<Str(kwargs[i][1]), kwargs[i][2]>>)]

\* _DEFAULT_KEY_FN
DEFAULT_KEY_FN(args) == IF Len(args) = 1 THEN args[1] ELSE Tup(args)

\* decorated_method, first line: key = str(key_fn(args + tuple(kwargs.items())))
CallKey(call) == PyStr(DEFAULT_KEY_FN(call.args \o KwItems(call.kwargs)))

\* decorated_method with the put in a `finally:`: a raising method leaves None
\* cached under the key.
decorated_method_finally(c, tag, call, outcome) ==
    LET key == CallKey(call)
        got == cache_get(c, tag, key)
    IN  IF got.value = PyNone
        THEN IF outcome.raises
             THEN [cache |-> cache_put(got.cache, tag, key, PyNone), value |-> PyNone,
                   invoked |-> TRUE, raised |-> TRUE]
             ELSE [cache |-> cache_put(got.cache, tag, key, outcome.value),
                   value |-> outcome.value, invoked |-> TRUE, raised |-> FALSE]
        ELSE [cache |-> cache_put(got.cache, tag, key, got.value),
              value |-> got.value, invoked |-> FALSE, raised |-> FALSE]

\* decorated_method on cache c; outcome is what the wrapped method does if it is
\* invoked ([raises, value]).  Gives the cache after the call, the value
\* returned, whether the method was invoked and whether its exception left
\* the call.
decorated_method(c, tag, call, outcome) ==
    LET key == CallKey(call)
        got == cache_get(c, tag, key)
    IN  IF got.value = PyNone
        THEN IF outcome.raises
             THEN [cache |-> got.cache, value |-> PyNone, invoked |-> TRUE, raised |-> TRUE]
             ELSE [cache |-> cache_put(got.cache, tag, key, outcome.value),
                   value |-> outcome.value, invoked |-> TRUE, raised |-> FALSE]
        ELSE [cache |-> cache_put(got.cache, tag, key, got.value),
              value |-> got.value, invoked |-> FALSE, raised |-> FALSE]

-----------------------------------------------------------------------------
(* Actions of the store.                                                   *)

\* The cache_filepath of a store: None, a path with a directory part, or a
\* bare file name; the working directory is that directory, so both paths
\* name the one cache file.
NoPath == "None"
DirPath == "dir/cache.json"
BarePath == "cache.json"

\* Values of the history variables.
NoLookup == [op |-> "none"]
NoSave == [by |-> "none", content |-> EmptyCache]
NoOp == [op |-> "none", proc |-> "none", tag |-> NoTag, arg |-> EmptyCache,
         before |-> EmptyCache]
SyncOp(p) == [op |-> "sync", proc |-> p, tag |-> NoTag, arg |-> EmptyCache,
              before |-> EmptyCache]
NoCall == [proc |-> "none", tag |-> NoTag, call |-> [args |-> << >>, kwargs |-> << >>],
           key |-> "", invoked |-> FALSE, raised |-> FALSE, value |-> PyNone,
           before |-> EmptyCache, hadReturned |-> FALSE, earlier |-> PyNone,
           afterRaise |-> FALSE]

\* Cached.__init__(cache_filepath, tag) with a cache_filepath
Construct(p, tag) ==
    /\ pc[p] = "new"
    /\ IF file.exists
       THEN /\ mem' = [mem EXCEPT ![p] = update_cache_from_file(EmptyCache, file, tag)]
            /\ UNCHANGED file
       ELSE LET r == save_cache_to_file(EmptyCache, TagStr(tag))
            IN  /\ mem' = [mem EXCEPT ![p] = r.cache]
                /\ file' = r.file
    /\ pc' = [pc EXCEPT ![p] = "idle"]
    /\ lastOp' = [op |-> "construct", proc |-> p, tag |-> tag, arg |-> EmptyCache,
                  before |-> EmptyCache]
    /\ lastSave' = IF file.exists THEN lastSave ELSE NoSave
    /\ cache_filepath' = [cache_filepath EXCEPT ![p] = DirPath]
    /\ UNCHANGED <<syncVars, nPuts, nOps, memoVars, lastLookup, walkVars>>

\* a direct self._cache_put(tag, key, value)
Put(p, tag, key, value) ==
    /\ pc[p] = "idle"
    /\ nPuts < MaxPuts
    /\ mem' = [mem EXCEPT ![p] = cache_put(mem[p], tag, key, value)]
    /\ nPuts' = nPuts + 1
    /\ lastOp' = [op |-> "put", proc |-> p, tag |-> tag, arg |-> EmptyCache,
                  before |-> EmptyCache]
    /\ UNCHANGED <<file, pc, syncVars, lastSave, nOps, memoVars, auxVars, walkVars>>

\* Cached.__init__(cache_filepath, tag) of the first revision (src/cache.py)
\* under WikiClient: the file is read; a missing file makes open() raise.
ConstructRev1(p, tag) ==
    /\ pc[p] = "new"
    /\ file.exists
    /\ mem' = [mem EXCEPT ![p] = update_cache_rev1(EmptyCache, read_cache_from_file(file), tag)]
    /\ pc' = [pc EXCEPT ![p] = "idle"]
    /\ lastOp' = [op |-> "construct_rev1", proc |-> p, tag |-> tag, arg |-> EmptyCache,
                  before |-> EmptyCache]
    /\ cache_filepath' = [cache_filepath EXCEPT ![p] = DirPath]
    /\ UNCHANGED <<file, syncVars, nPuts, lastSave, nOps, memoVars, lastLookup, walkVars>>

\* a direct self._cache_get(tag, key)
Get(p, tag, key) ==
    /\ pc[p] = "idle"
    /\ nOps < MaxOps
    /\ nOps' = nOps + 1
    /\ mem' = [mem EXCEPT ![p] = cache_get(mem[p], tag, key).cache]
    /\ lastOp' = [op |-> "get", proc |-> p, tag |-> tag, arg |-> EmptyCache,
                  before |-> mem[p]]
    /\ UNCHANGED <<file, pc, syncVars, nPuts, lastSave, memoVars, auxVars, walkVars>>

\* update_cache(cache_dict, tag)
Merge(p, cache_dict, tag) ==
    /\ pc[p] = "idle"
    /\ nOps < MaxOps
    /\ nOps' = nOps + 1
    /\ mem' = [mem EXCEPT ![p] = update_cache(mem[p], cache_dict, tag)]
    /\ lastOp' = [op |-> "merge", proc |-> p, tag |-> tag, arg |-> cache_dict,
                  before |-> mem[p]]
    /\ UNCHANGED <<file, pc, syncVars, nPuts, lastSave, memoVars, auxVars, walkVars>>

\* update_cache(cache_dict, tag) of the first revision (src/cache.py)
MergeRev1(p, cache_dict, tag) ==
    /\ pc[p] = "idle"
    /\ nOps < MaxOps
    /\ nOps' = nOps + 1
    /\ mem' = [mem EXCEPT ![p] = update_cache_rev1(mem[p], cache_dict, tag)]
    /\ lastOp' = [op |-> "merge_rev1", proc |-> p, tag |-> tag, arg |-> cache_dict,
                  before |-> mem[p]]
    /\ UNCHANGED <<file, pc, syncVars, nPuts, lastSave, memoVars, auxVars, walkVars>>

\* update_cache_from_file(filepath, tag) on the existing cache file
LoadFromFile(p, tag) ==
    /\ pc[p] = "idle"
    /\ file.exists
    /\ nOps < MaxOps
    /\ nOps' = nOps + 1
    /\ mem' = [mem EXCEPT ![p] = update_cache_from_file(mem[p], file, tag)]
    /\ lastOp' = [op |-> "load", proc |-> p, tag |-> tag, arg |-> EmptyCache,
                  before |-> mem[p]]
    /\ UNCHANGED <<file, pc, syncVars, nPuts, lastSave, memoVars, auxVars, walkVars>>

\* save_cache_to_file(filepath, tags) to the cache file
SaveToFile(p, tags) ==
    /\ pc[p] = "idle"
    /\ nOps < MaxOps
    /\ nOps' = nOps + 1
    /\ LET r == save_cache_to_file(mem[p], tags)
       IN  /\ mem' = [mem EXCEPT ![p] = r.cache]
           /\ file' = r.file
    /\ lastSave' = IF tags.none THEN [by |-> p, content |-> mem[p]] ELSE NoSave
    /\ lastOp' = [op |-> "save", proc |-> p, tag |-> NoTag, arg |-> EmptyCache,
                  before |-> EmptyCache]
    /\ UNCHANGED <<pc, syncVars, nPuts, memoVars, auxVars, walkVars>>

\* sync_with_file, `with self._cache_filelock:` entered
SyncAcquire(p, tag) ==
    /\ pc[p] = "idle"
    /\ lock = "free"
    /\ nSyncs < MaxSyncs
    /\ nSyncs' = nSyncs + 1
    /\ lock' = p
    /\ pc' = [pc EXCEPT ![p] = "locked"]
    /\ syncTag' = [syncTag EXCEPT ![p] = tag]
    /\ acq' = [acq EXCEPT ![p] = [mem |-> mem[p], file |-> file.data]]
    /\ lastOp' = SyncOp(p)
    /\ UNCHANGED <<mem, file, lastSync, nPuts, lastSave, nOps, memoVars, auxVars, walkVars>>

\* sync_with_file, self.update_cache_from_file(self.cache_filepath, tag)
SyncLoad(p) ==
    /\ pc[p] = "locked"
    /\ mem' = [mem EXCEPT ![p] = update_cache_from_file(mem[p], file, syncTag[p])]
    /\ pc' = [pc EXCEPT ![p] = "loaded"]
    /\ UNCHANGED <<file, lock, syncTag, acq, lastSync, nSyncs, nPuts, histVars, memoVars, auxVars, walkVars>>

\* sync_with_file, self.save_cache_to_file(self.cache_filepath, tag)
SyncSave(p) ==
    /\ pc[p] = "loaded"
    /\ LET r == save_cache_to_file(mem[p], TagStr(syncTag[p]))
       IN  /\ mem' = [mem EXCEPT ![p] = r.cache]
           /\ file' = r.file
    /\ pc' = [pc EXCEPT ![p] = "saved"]
    /\ lastSave' = NoSave
    /\ UNCHANGED <<lock, syncTag, acq, lastSync, nSyncs, nPuts, lastOp, nOps, memoVars, auxVars, walkVars>>

\* sync_with_file, the with block left: the lock is released
SyncRelease(p) ==
    /\ pc[p] = "saved"
    /\ lock' = "free"
    /\ pc' = [pc EXCEPT ![p] = "idle"]
    /\ lastSync' = [proc |-> p, tag |-> syncTag[p], memBefore |-> acq[p].mem,
                     fileAfter |-> file.data]
    /\ syncTag' = [syncTag EXCEPT ![p] = NoTag]
    /\ acq' = [acq EXCEPT ![p] = [mem |-> EmptyCache, file |-> EmptyCache]]
    /\ UNCHANGED <<mem, file, nSyncs, nPuts, histVars, memoVars, auxVars, walkVars>>

-----------------------------------------------------------------------------
(* SpecSync: two stores bound to one cache file.                           *)

\* Files left by earlier runs: none, or one saved by save_cache_to_file.
InitFiles ==
    { [exists |-> FALSE, data |-> EmptyCache],
      [exists |-> TRUE, data |-> ("t1" :> ("k1" :> Plain("a")))] }

InitSync ==
    /\ mem = [p \in Procs |-> EmptyCache]
    /\ file \in InitFiles
    /\ lock = "free"
    /\ pc = [p \in Procs |-> "new"]
    /\ syncTag = [p \in Procs |-> NoTag]
    /\ acq = [p \in Procs |-> [mem |-> EmptyCache, file |-> EmptyCache]]
    /\ lastSync = [proc |-> "none", tag |-> NoTag, memBefore |-> EmptyCache,
                   fileAfter |-> EmptyCache]
    /\ nSyncs = 0
    /\ nPuts = 0
    /\ lastOp = NoOp /\ lastSave = NoSave /\ nOps = 0
    /\ lastCall = NoCall /\ returned = {} /\ nCalls = 0
    /\ lastLookup = NoLookup /\ cache_filepath = [p \in Procs |-> NoPath]
    /\ wpc = "idle" /\ Q = << >> /\ result = "None" /\ candidates = {} /\ nFetch = 0
    /\ graph = [inst |-> << >>, sub |-> << >>]

\* Inputs of the actions under SpecSync.
SyncTagArgs == {NoTag, "t1"}
SyncKeys == {"k1"}

NextSync ==
    \/ \E p \in Procs, tag \in SyncTagArgs : Construct(p, tag)
    \/ \E p \in Procs, tag \in Tags, key \in SyncKeys, value \in PutValues : Put(p, tag, key, value)
    \/ \E p \in Procs, tag \in SyncTagArgs : SyncAcquire(p, tag)
    \/ \E p \in Procs : SyncLoad(p)
    \/ \E p \in Procs : SyncSave(p)
    \/ \E p \in Procs : SyncRelease(p)

SpecSync == InitSync /\ [][NextSync]_vars

\* p is inside sync_with_file's with block.
InSync(p) == pc[p] \in {"locked", "loaded", "saved"}

\* Every entry of c is one a _cache_put of a leaf value made.
PutOnly(c) == \A e \in Entries(c) : e[3] \in PutValues

\* q has finished the write of its sync_with_file(), which directly follows the
\* completed sync_with_file() of another store (both called without a tag).
SecondOfTwo(q) ==
    /\ pc[q] = "saved"
    /\ lastSync.proc \notin {q, "none"}
    /\ syncTag[q] = NoTag
    /\ lastSync.tag = NoTag

\* C3: every (tag, key, value) of the file at lock acquisition, under a
\* (tag, key) the synchronizing store holds no entry for, is still in the file
\* once the store has written it (stated for sync_with_file() without a tag).
C3_SyncPreservesFileEntries ==
    \A p \in Procs :
        (pc[p] = "saved" /\ syncTag[p] = NoTag) =>
            \A e \in Entries(acq[p].file) :
                <<e[1], e[2]>> \notin EntryKeys(acq[p].mem) => e \in Entries(file.data)

\* C4: when two stores holding entries under disjoint (tag, key) pairs run
\* sync_with_file one after the other, the file then contains the entries of both.
C4_SequentialSyncUnion ==
    \A q \in Procs :
        ( /\ SecondOfTwo(q)
          /\ PutOnly(lastSync.memBefore) /\ PutOnly(acq[q].mem)
          /\ EntryKeys(lastSync.memBefore) # {}
          /\ EntryKeys(acq[q].mem) # {}
          /\ EntryKeys(lastSync.memBefore) \cap EntryKeys(acq[q].mem) = {} )
        => ( Entries(JsonValue(lastSync.memBefore)) \cup Entries(JsonValue(acq[q].mem))
                \subseteq Entries(file.data) )

\* Mutual exclusion of sync_with_file, and no write to the file between a
\* store's acquisition of the lock and its own write.
SyncMutualExclusion ==
    /\ \A p, q \in Procs : (InSync(p) /\ InSync(q)) => p = q
    /\ \A p \in Procs : pc[p] \in {"locked", "loaded"} => file.data = acq[p].file

\* C5: at most one process at a time is inside its load-merge-save cycle, the
\* cycles do not interleave, and no entry written by one sync_with_file is lost
\* to the other (entries under a (tag, key) the other holds itself aside).
C5_SyncExclusiveNoLostEntry ==
    /\ SyncMutualExclusion
    /\ \A q \in Procs :
          SecondOfTwo(q) =>
            \A e \in Entries(lastSync.fileAfter) :
                <<e[1], e[2]>> \notin EntryKeys(acq[q].mem) => e \in Entries(file.data)

\* C6: when two stores hold different values under one (tag, key) and run
\* sync_with_file one after the other, the file then holds the value of the
\* store that synchronized last.
C6_LastWriterWins ==
    \A q \in Procs :
        (SecondOfTwo(q) /\ PutOnly(lastSync.memBefore) /\ PutOnly(acq[q].mem)) =>
            \A tk \in EntryKeys(lastSync.memBefore) \cap EntryKeys(acq[q].mem) :
                lastSync.memBefore[tk[1]][tk[2]] # acq[q].mem[tk[1]][tk[2]]
                => ( /\ tk \in EntryKeys(file.data)
                     /\ file.data[tk[1]][tk[2]] = JsonValue(acq[q].mem[tk[1]][tk[2]]) )

-----------------------------------------------------------------------------
(* SpecMemo: calls of cached methods on one client.                        *)

MaxCalls == 3

\* The call shapes: (Q1), (Q1, en), ((Q1, en)), (Q1, lang=en)
Calls ==
    { [args |-> <<Str("Q1")>>, kwargs |-> << >>],
      [args |-> <<Str("Q1"), Str("en")>>, kwargs |-> << >>],
      [args |-> <<Tup(<<Str("Q1"), Str("en")>>)>>, kwargs |-> << >>],
      [args |-> <<Str("Q1")>>, kwargs |-> << <<"lang", Str("en")>> >>] }

\* What the wrapped method does when invoked: it raises, or returns a value
\* (None included).
Outcomes ==
    {[raises |-> TRUE, value |-> PyNone]} \cup
    {[raises |-> FALSE, value |-> v] : v \in PutValues \cup {PyNone}}

\* The entries of `returned` about the call (p, tag, call).
Earlier(p, tag, call) == {r \in returned : r.proc = p /\ r.tag = tag /\ r.call = call}

\* a call p.method(*args, **kwargs) of a method decorated with cached_method(tag)
MemoCall(p, tag, call, outcome) ==
    /\ pc[p] = "idle"
    /\ nCalls < MaxCalls
    /\ nCalls' = nCalls + 1
    /\ LET r == decorated_method(mem[p], tag, call, outcome)
       IN  /\ mem' = [mem EXCEPT ![p] = r.cache]
           /\ lastCall' =
                [proc |-> p, tag |-> tag, call |-> call, key |-> CallKey(call),
                 invoked |-> r.invoked, raised |-> r.raised, value |-> r.value,
                 before |-> mem[p],
                 hadReturned |-> Earlier(p, tag, call) # {},
                 earlier |-> IF Earlier(p, tag, call) # {}
                             THEN (CHOOSE e \in Earlier(p, tag, call) : TRUE).value
                             ELSE PyNone,
                 afterRaise |-> /\ lastCall.raised
                                /\ lastCall.proc = p /\ lastCall.tag = tag
                                /\ lastCall.call = call]
           /\ returned' = IF r.raised THEN returned
                          ELSE (returned \ Earlier(p, tag, call)) \cup
                               {[proc |-> p, tag |-> tag, call |-> call, value |-> r.value]}
    /\ lastOp' = [op |-> "call", proc |-> p, tag |-> tag, arg |-> EmptyCache,
                  before |-> EmptyCache]
    /\ UNCHANGED <<file, pc, syncVars, nPuts, lastSave, nOps, auxVars, walkVars>>

\* A client constructed without a cache file: WikiClient().
InitMemo ==
    /\ mem = [p \in Procs |-> EmptyCache]
    /\ file = [exists |-> FALSE, data |-> EmptyCache]
    /\ pc = [p \in Procs |-> IF p = "p1" THEN "idle" ELSE "new"]
    /\ lock = "free"
    /\ syncTag = [p \in Procs |-> NoTag]
    /\ acq = [p \in Procs |-> [mem |-> EmptyCache, file |-> EmptyCache]]
    /\ lastSync = [proc |-> "none", tag |-> NoTag, memBefore |-> EmptyCache,
                   fileAfter |-> EmptyCache]
    /\ nSyncs = 0
    /\ nPuts = 0
    /\ lastOp = NoOp /\ lastSave = NoSave /\ nOps = 0
    /\ lastCall = NoCall /\ returned = {} /\ nCalls = 0
    /\ lastLookup = NoLookup /\ cache_filepath = [p \in Procs |-> NoPath]
    /\ wpc = "idle" /\ Q = << >> /\ result = "None" /\ candidates = {} /\ nFetch = 0
    /\ graph = [inst |-> << >>, sub |-> << >>]

NextMemo ==
    \E p \in Procs, tag \in Tags, call \in Calls, outcome \in Outcomes :
        MemoCall(p, tag, call, outcome)

SpecMemo == InitMemo /\ [][NextMemo]_vars

\* C1: once a call has returned, a later call of the same method on the same
\* client with identical arguments returns that value and does not invoke the
\* wrapped method, whatever the value was.
C1_MemoizedOnce ==
    lastCall.hadReturned =>
        /\ ~lastCall.invoked
        /\ ~lastCall.raised
        /\ lastCall.value = lastCall.earlier

C2_WitnessRetry == lastCall.afterRaise /\ ~lastCall.raised

-----------------------------------------------------------------------------
(* SpecStore: the operations of a store, one after the other.              *)

\* tag -> mapping structures passed to update_cache without a tag
Incoming ==
    { ("t1" :> ("k1" :> Plain("a"))),
      ("t2" :> ("k2" :> Plain("b"))) }

\* flat mappings passed to update_cache with a tag
FlatIncoming == { ("k1" :> Plain("a")) }

\* `tags` arguments of save_cache_to_file
SaveTags == {NoTags, TagList({"t1"})}

\* values put under SpecStore: a str, or a list holding a tuple
StoreValues == {Plain("b"), Plain("tup")}

InitStore ==
    /\ mem = [p \in Procs |-> EmptyCache]
    /\ file = [exists |-> FALSE, data |-> EmptyCache]
    /\ pc = [p \in Procs |-> "new"]
    /\ lock = "free"
    /\ syncTag = [p \in Procs |-> NoTag]
    /\ acq = [p \in Procs |-> [mem |-> EmptyCache, file |-> EmptyCache]]
    /\ lastSync = [proc |-> "none", tag |-> NoTag, memBefore |-> EmptyCache,
                   fileAfter |-> EmptyCache]
    /\ nSyncs = 0
    /\ nPuts = 0
    /\ lastOp = NoOp /\ lastSave = NoSave /\ nOps = 0
    /\ lastCall = NoCall /\ returned = {} /\ nCalls = 0
    /\ lastLookup = NoLookup /\ cache_filepath = [p \in Procs |-> NoPath]
    /\ wpc = "idle" /\ Q = << >> /\ result = "None" /\ candidates = {} /\ nFetch = 0
    /\ graph = [inst |-> << >>, sub |-> << >>]

\* p1 is the store that is written to; p2 is a second store on the same file.
NextStore ==
    \/ \E p \in Procs, tag \in SyncTagArgs : Construct(p, tag)
    \/ \E p \in Procs, tag \in SyncTagArgs : ConstructRev1(p, tag)
    \/ \E tag \in Tags, key \in Keys, value \in StoreValues : Put("p1", tag, key, value)
    \/ \E tag \in Tags : Get("p1", tag, "k1")
    \/ \E d \in Incoming : Merge("p1", d, NoTag)
    \/ \E d \in FlatIncoming : Merge("p1", d, "t1")
    \/ \E d \in Incoming : MergeRev1("p1", d, NoTag)
    \/ \E p \in Procs, tag \in SyncTagArgs : LoadFromFile(p, tag)
    \/ \E tags \in SaveTags : SaveToFile("p1", tags)

SpecStore == InitStore /\ [][NextStore]_vars

\* C7: a fresh store constructed on (or loaded from) the file another store
\* was saved to holds the tag -> key -> value structure that was saved: its
\* entries are exactly the saved entries.
C7_SaveLoadRoundTrip ==
    ( /\ lastOp.op \in {"construct", "load"}
      /\ lastOp.tag = NoTag
      /\ lastOp.before = EmptyCache
      /\ lastSave.by # "none" )
    => Entries(mem[lastOp.proc]) = Entries(lastSave.content)

\* C8: update_cache without a tag leaves every tag with the incoming value
\* under every incoming key, and with every other existing key unchanged.
C8_MergeSemantics ==
    (lastOp.op \in {"merge", "merge_rev1"} /\ lastOp.tag = NoTag) =>
        LET m == mem[lastOp.proc]
            inc == lastOp.arg
            old == lastOp.before
        IN  /\ \A tk \in EntryKeys(inc) :
                  tk \in EntryKeys(m) /\ m[tk[1]][tk[2]] = inc[tk[1]][tk[2]]
            /\ \A tk \in EntryKeys(old) \ EntryKeys(inc) :
                  tk \in EntryKeys(m) /\ m[tk[1]][tk[2]] = old[tk[1]][tk[2]]

\* One more self-check of the memo: a value other than None is served from the
\* cache (the part of C1 the code keeps).
MemoizedOnceNotNone ==
    (lastCall.hadReturned /\ lastCall.earlier # PyNone) =>
        /\ ~lastCall.invoked
        /\ ~lastCall.raised
        /\ lastCall.value = lastCall.earlier

-----------------------------------------------------------------------------
(* WikiClient.get_entity_category (src/utils.py): the category walk.       *)

MaxQ == 4

INSTANCE_OF == "P31"
SUBCLASS_OF == "P279"

Entity == "Q1"
Nodes == {"Q2", "Q3", "Q5"}
Client == "p1"

\* Lists of at most two distinct targets.
TargetSeqs ==
    {<< >>} \cup {<<a>> : a \in Nodes} \cup
    ({<<a, b>> : a \in Nodes, b \in Nodes} \ {<<a, a>> : a \in Nodes})

\* Terminal category sets.
CandidateSets == {{}, {"Q5"}, {"Q3", "Q5"}, Nodes}

\* The claims wbgetclaims serves for (qid, pid).
Claims(qid, pid) ==
    IF pid = INSTANCE_OF
    THEN (IF qid = Entity THEN graph.inst ELSE << >>)
    ELSE (IF qid \in Nodes THEN graph.sub[qid] ELSE << >>)

\* self.get_entity_prop(qid, pid) on cache c: the cached_method around the
\* request; `up` tells whether a request made now succeeds.
get_entity_prop(c, qid, pid, up) ==
    decorated_method(c, "entity_prop",
                     [args |-> <<Str(qid), Str(pid)>>, kwargs |-> << >>],
                     [raises |-> ~up, value |-> ListOf(Claims(qid, pid))])

\* a stack instead of the deque's tail: depth-first
EnqueueFront(q, super_class_qids) == super_class_qids \o q

\* for parent_qid in super_class_qids: Q.append(parent_qid)
Enqueue(q, super_class_qids) == q \o super_class_qids

\* a loop that goes on until the queue is empty, terminal head or not
LoopCondUntilEmpty == Q # << >>

\* `while Q and Q[0] not in candidates`
LoopCond == Q # << >> /\ Q[1] \notin candidates

\* get_entity_category: qids = self.get_entity_prop(entity_qid, INSTANCE_OF),
\* then get_super_class_from builds the deque.
StartWalk(up) ==
    /\ wpc = "idle"
    /\ LET r == get_entity_prop(mem[Client], Entity, INSTANCE_OF, up)
       IN  /\ mem' = [mem EXCEPT ![Client] = r.cache]
           /\ IF r.raised
              THEN wpc' = "raised" /\ Q' = Q
              ELSE wpc' = "walking" /\ Q' = r.value.list
    /\ UNCHANGED <<file, pc, syncVars, nPuts, histVars, memoVars, auxVars, result, graph,
                   candidates, nFetch>>

\* one turn of the while loop of get_super_class_from
WalkStep(up) ==
    /\ wpc = "walking"
    /\ LoopCond
    /\ LET qid == Q[1]
           r == get_entity_prop(mem[Client], qid, SUBCLASS_OF, up)
       IN  /\ mem' = [mem EXCEPT ![Client] = r.cache]
           /\ nFetch' = IF r.invoked THEN nFetch + 1 ELSE nFetch
           /\ IF r.raised
              THEN wpc' = "raised" /\ Q' = Tail(Q)
              ELSE /\ Q' = Enqueue(Tail(Q), r.value.list)
                   /\ wpc' = IF Len(Q') > MaxQ THEN "overflow" ELSE "walking"
    /\ UNCHANGED <<file, pc, syncVars, nPuts, histVars, memoVars, auxVars, result, graph, candidates>>

\* return Q[0] if Q else None
WalkReturn ==
    /\ wpc = "walking"
    /\ ~LoopCond
    /\ result' = IF Q # << >> THEN Q[1] ELSE "None"
    /\ wpc' = "done"
    /\ UNCHANGED <<storeVars, syncVars, nPuts, histVars, memoVars, auxVars, Q, graph, candidates, nFetch>>

InitWalk ==
    /\ mem = [p \in Procs |-> EmptyCache]
    /\ file = [exists |-> FALSE, data |-> EmptyCache]
    /\ pc = [p \in Procs |-> IF p = Client THEN "idle" ELSE "new"]
    /\ lock = "free"
    /\ syncTag = [p \in Procs |-> NoTag]
    /\ acq = [p \in Procs |-> [mem |-> EmptyCache, file |-> EmptyCache]]
    /\ lastSync = [proc |-> "none", tag |-> NoTag, memBefore |-> EmptyCache,
                   fileAfter |-> EmptyCache]
    /\ nSyncs = 0
    /\ nPuts = 0
    /\ lastOp = NoOp /\ lastSave = NoSave /\ nOps = 0
    /\ lastCall = NoCall /\ returned = {} /\ nCalls = 0
    /\ lastLookup = NoLookup /\ cache_filepath = [p \in Procs |-> NoPath]
    /\ wpc = "idle" /\ Q = << >> /\ result = "None" /\ nFetch = 0
    /\ candidates \in CandidateSets
    /\ graph \in [inst : TargetSeqs, sub : [Nodes -> TargetSeqs]]

NextWalk ==
    \/ \E up \in BOOLEAN : StartWalk(up)
    \/ \E up \in BOOLEAN : WalkStep(up)
    \/ WalkReturn

SpecWalk == InitWalk /\ [][NextWalk]_vars

\* Graphs in which every class has at most one superclass.
InitWalkChains ==
    /\ InitWalk
    /\ \A n \in Nodes : Len(graph.sub[n]) <= 1

\* The walk is a sequential loop: it takes its next step whenever it has one.
SpecWalkFair == InitWalkChains /\ [][NextWalk]_vars /\ WF_vars(NextWalk)

\* Distance in edges from the entity: its instance-of targets are at 1, each
\* subclass-of edge adds 1.  Level(k) is the set of QIDs at the end of a path
\* of exactly k edges.
Successors(S) == UNION {{graph.sub[n][i] : i \in DOMAIN graph.sub[n]} : n \in S}

RECURSIVE LevelFrom(_, _)
LevelFrom(S, k) == IF k = 0 THEN S ELSE Successors(LevelFrom(S, k - 1))

Level(k) == LevelFrom({graph.inst[i] : i \in DOMAIN graph.inst}, k - 1)

MaxDist == Cardinality(Nodes)
Reachable == UNION {Level(k) : k \in 1..MaxDist}
Dist(n) == CHOOSE k \in 1..MaxDist : n \in Level(k) /\ \A j \in 1..(k - 1) : n \notin Level(j)

\* C9: a value returned by the category lookup is a terminal category reached
\* by one instance-of edge and then subclass-of edges, and no terminal
\* category is nearer to the entity.
C9_NearestTerminal ==
    (wpc = "done" /\ result # "None") =>
        /\ result \in candidates
        /\ result \in Reachable
        /\ \A c \in candidates \cap Reachable : Dist(result) <= Dist(c)

\* The chain Q1 -P31-> Q2 -P279-> Q3 -P279-> Q5 walked to its end: the
\* terminal category is three edges away and two subclass-of requests were made.
C9_Witness ==
    /\ wpc = "done"
    /\ result = "Q5"
    /\ Dist("Q5") = 3
    /\ nFetch = 2

OnCycle(n) == \E k \in 1..MaxDist : n \in LevelFrom({n}, k)

\* A subclass-of cycle through at least two classes can be reached and no
\* terminal category can.
CycleNoTerminal ==
    /\ candidates \cap Reachable = {}
    /\ \E n \in Reachable : OnCycle(n)
    /\ \A n \in Reachable : n \notin Successors({n})

\* C10: on a graph with a reachable subclass-of cycle and no reachable terminal
\* category the lookup terminates and returns None (the walk is cut off by
\* MaxQ or by a failing request at the latest).
C10_CycleTerminates ==
    (wpc = "walking" /\ CycleNoTerminal) ~>
        ((wpc = "done" /\ result = "None") \/ wpc \in {"overflow", "raised"})

-----------------------------------------------------------------------------
(* SpecKey: the cache key of every call shape.                             *)

\* The call shapes: (), (Q1), (Q1, en), ((Q1, en)), (Q1, lang=en), (lang=en),
\* (Q1, (lang, en)).
KeyCalls ==
    { [args |-> << >>, kwargs |-> << >>],
      [args |-> <<Str("Q1")>>, kwargs |-> << >>],
      [args |-> <<Str("Q1"), Str("en")>>, kwargs |-> << >>],
      [args |-> <<Tup(<<Str("Q1"), Str("en")>>)>>, kwargs |-> << >>],
      [args |-> <<Str("Q1")>>, kwargs |-> << <<"lang", Str("en")>> >>],
      [args |-> << >>, kwargs |-> << <<"lang", Str("en")>> >>],
      [args |-> <<Str("Q1"), Tup(<<Str("lang"), Str("en")>>)>>, kwargs |-> << >>] }

\* The wrapped method returns a value.
KeyOutcomes == {[raises |-> FALSE, value |-> v] : v \in PutValues}

NextKey ==
    \E call \in KeyCalls, outcome \in KeyOutcomes : MemoCall(Client, "t1", call, outcome)

SpecKey == InitMemo /\ [][NextKey]_vars

\* The key the documented default key function gives a call.
DocumentedKey(call) ==
    IF Len(call.args) = 1 /\ call.kwargs = << >>
    THEN PyStr(call.args[1])
    ELSE PyStr(Tup(call.args \o KwItems(call.kwargs)))

\* C11: a call with exactly one positional argument and no keyword argument
\* has the string form of that argument as its key; every other call has the
\* string form of the tuple of its positional arguments followed by its
\* keyword items.
C11_DefaultKey ==
    lastCall.proc # "none" => lastCall.key = DocumentedKey(lastCall.call)

\* C12: two calls under one tag have the same key if and only if they have
\* the same positional and the same keyword arguments.
C12_KeysCollisionFree ==
    \A r \in returned :
        (r.proc = lastCall.proc /\ r.tag = lastCall.tag) =>
            (CallKey(r.call) = lastCall.key <=> r.call = lastCall.call)

-----------------------------------------------------------------------------
(* WikiClient.get_associated_country (src/utils.py).                       *)

COUNTRY == "P17"
COUNTRY_OF_CITIZENSHIP == "P27"

\* The entities looked up, and the lists of country QIDs the API answers with.
LookupEntities == {"Q76", "Q60"}
CountryLists == {<< >>, <<"Q30">>, <<"Q30", "Q16">>}

\* The English label the API serves for a QID.
Label(qid) == "label of " \o qid

\* Result of a method call of the client: the cache after it, the value
\* returned, whether an exception left it, and the (qid, pid) claims requests
\* it sent.
Raised(c, reqs) == [cache |-> c, value |-> PyNone, raised |-> TRUE, reqs |-> reqs]
Returned(c, v, reqs) == [cache |-> c, value |-> v, raised |-> FALSE, reqs |-> reqs]

\* The element of a set of one: S is {f(v) : v \in {e}}, which has e evaluated
\* once for all the uses f makes of it.
Only(S) == CHOOSE x \in S : TRUE

\* The result of a decorated_method call r that sent the requests reqs.
Outcome(r, reqs) ==
    [cache |-> r.cache, value |-> r.value, raised |-> r.raised, reqs |-> reqs]

\* A cached_method(tag) call whose method body, run on cache c, gives `body`:
\* the body runs on a miss only, and what it put in the cache stays there
\* also when it raises.
MemoizedOn(c, tag, call, body, miss) ==
    Only({Outcome(r, IF miss THEN body.reqs ELSE {}) :
              r \in {decorated_method(IF miss THEN body.cache ELSE c, tag, call,
                                      [raises |-> body.raised, value |-> body.value])}})

Memoized(c, tag, call, body) ==
    Only({MemoizedOn(cv, tag, call, bv, miss) :
              cv \in {c}, bv \in {body},
              miss \in {cache_get(c, tag, CallKey(call)).value = PyNone}})

\* get_entity_prop(qid, pid) when the API would answer with `qids`
get_entity_prop_of(c, qid, pid, qids, up) ==
    Memoized(c, "entity_prop", [args |-> <<Str(qid), Str(pid)>>, kwargs |-> << >>],
             IF up THEN Returned(c, ListOf(qids), {<<qid, pid>>})
             ELSE Raised(c, {<<qid, pid>>}))

\* get_entity_info(qid, "en")["labels"] of a get_entity_info result r
LabelsOf(r) == IF r.raised THEN r ELSE [r EXCEPT !.value = r.value.labels.val]

\* get_entity_name(qid): get_entity_info(qid, "en")["labels"]
get_entity_name(c, qid, up) ==
    Only({LabelsOf(r) :
              r \in {Memoized(c, "entity_info",
                              [args |-> <<Str(qid), Str("en")>>, kwargs |-> << >>],
                              IF up THEN Returned(c, [labels |-> Plain(Label(qid)),
                                                      descriptions |-> Plain("")], {})
                              ELSE Raised(c, {}))}})

\* (qid, name) put in front of the pairs of the remaining qids
ConsPair(qid, n, rest) ==
    IF rest.raised THEN rest
    ELSE Returned(rest.cache, <<<<qid, n.value>>>> \o rest.value, {})

\* list(zip(qids, [self.get_entity_name(qid) for qid in qids]))
RECURSIVE NamedPairs(_, _, _)
NamedPairs(c, qids, up) ==
    IF qids = << >> THEN Returned(c, << >>, {})
    ELSE Only({IF n.raised THEN n
               ELSE Only({ConsPair(qids[1], n, rest) :
                              rest \in {NamedPairs(n.cache, Tail(qids), up)}}) :
                   n \in {get_entity_name(c, qids[1], up)}})

\* The pairs np named after the claims request pr
PairsResult(pr, np) ==
    IF np.raised THEN Raised(np.cache, pr.reqs)
    ELSE Returned(np.cache, ListOf(np.value), pr.reqs)

\* The body shared by get_nationality and get_country: the claims of pid, then
\* the names.
PairsOf(c, qid, pid, qids, up) ==
    Only({IF pr.raised THEN pr
          ELSE Only({PairsResult(pr, np) :
                         np \in {NamedPairs(pr.cache, pr.value.list, up)}}) :
              pr \in {get_entity_prop_of(c, qid, pid, qids, up)}})

get_nationality(c, qid, nats, up) ==
    Memoized(c, "entity_nationality", [args |-> <<Str(qid)>>, kwargs |-> << >>],
             PairsOf(c, qid, COUNTRY_OF_CITIZENSHIP, nats, up))

get_country(c, qid, ctrs, up) ==
    Memoized(c, "entity_country", [args |-> <<Str(qid)>>, kwargs |-> << >>],
             PairsOf(c, qid, COUNTRY, ctrs, up))

\* What get_associated_country gives when get_nationality raised
NationalityRaised(nat) ==
    [cache |-> nat.cache, value |-> PyNone, raised |-> TRUE, reqs |-> nat.reqs,
     nationality |-> PyNone, countryCalled |-> FALSE, country |-> PyNone]

\* return nationality
FromNationality(nat) ==
    [cache |-> nat.cache, value |-> ListOf(nat.value.list), raised |-> FALSE,
     reqs |-> nat.reqs, nationality |-> nat.value, countryCalled |-> FALSE,
     country |-> PyNone]

\* return self.get_country(qid)
FromCountry(nat, ctr) ==
    [cache |-> ctr.cache,
     value |-> IF ctr.raised THEN PyNone ELSE ListOf(ctr.value.list),
     raised |-> ctr.raised, reqs |-> nat.reqs \cup ctr.reqs,
     nationality |-> nat.value, countryCalled |-> TRUE, country |-> ctr.value]

\* The two lists joined into one answer
FromBoth(nat, ctr) ==
    [cache |-> ctr.cache,
     value |-> IF nat.raised \/ ctr.raised THEN PyNone
               ELSE ListOf(nat.value.list \o ctr.value.list),
     raised |-> nat.raised \/ ctr.raised, reqs |-> nat.reqs \cup ctr.reqs,
     nationality |-> nat.value, countryCalled |-> TRUE, country |-> ctr.value]

\* get_associated_country with the two lookups merged: the country is looked
\* up whatever the nationality gave.
associated_country_merged(c, qid, nats, ctrs, up) ==
    Only({Only({FromBoth(nat, ctr) : ctr \in {get_country(nat.cache, qid, ctrs, up)}}) :
              nat \in {get_nationality(c, qid, nats, up)}})

\* The body of get_associated_country on cache c; besides the result it tells
\* what get_nationality returned, whether get_country was called and what it
\* returned.
associated_country_body(c, qid, nats, ctrs, up) ==
    Only({IF nat.raised THEN NationalityRaised(nat)
          ELSE IF nat.value.list # << >> THEN FromNationality(nat)
          ELSE Only({FromCountry(nat, ctr) :
                         ctr \in {get_country(nat.cache, qid, ctrs, up)}}) :
              nat \in {get_nationality(c, qid, nats, up)}})

\* get_associated_country(qid), its body giving `body` on a miss
get_associated_country(c, qid, body) ==
    Memoized(c, "associated_country", [args |-> <<Str(qid)>>, kwargs |-> << >>], body)

\* client.get_nationality(qid) / client.get_country(qid)
GetPairs(p, op, qid, qids, up) ==
    /\ pc[p] = "idle"
    /\ nCalls < MaxCalls
    /\ nCalls' = nCalls + 1
    /\ \E r \in {IF op = "nationality" THEN get_nationality(mem[p], qid, qids, up)
                 ELSE get_country(mem[p], qid, qids, up)} :
           /\ mem' = [mem EXCEPT ![p] = r.cache]
           /\ lastLookup' = [op |-> op, proc |-> p, entity |-> qid, raised |-> r.raised,
                             value |-> r.value, before |-> mem[p], reqs |-> r.reqs]
    /\ UNCHANGED <<file, pc, syncVars, nPuts, histVars, lastCall, returned,
                   cache_filepath, walkVars>>

\* client.get_associated_country(qid)
GetAssociatedCountry(p, qid, nats, ctrs, up) ==
    /\ pc[p] = "idle"
    /\ nCalls < MaxCalls
    /\ nCalls' = nCalls + 1
    /\ \E b \in {associated_country_body(mem[p], qid, nats, ctrs, up)},
          miss \in {cache_get(mem[p], "associated_country", qid).value = PyNone} :
       \E r \in {get_associated_country(mem[p], qid, b)} :
           /\ mem' = [mem EXCEPT ![p] = r.cache]
           /\ lastLookup' =
                [op |-> "associated_country", proc |-> p, entity |-> qid,
                 raised |-> r.raised, value |-> r.value, before |-> mem[p],
                 reqs |-> r.reqs, uncached |-> miss,
                 nationality |-> IF miss THEN b.nationality ELSE PyNone,
                 countryCalled |-> miss /\ b.countryCalled,
                 country |-> IF miss THEN b.country ELSE PyNone]
    /\ UNCHANGED <<file, pc, syncVars, nPuts, histVars, lastCall, returned,
                   cache_filepath, walkVars>>

NextCountry ==
    \/ \E qid \in LookupEntities, qids \in CountryLists, up \in BOOLEAN :
           GetPairs(Client, "nationality", qid, qids, up)
    \/ \E qid \in LookupEntities, qids \in CountryLists, up \in BOOLEAN :
           GetPairs(Client, "country", qid, qids, up)
    \/ \E qid \in LookupEntities, nats \in CountryLists, ctrs \in CountryLists, up \in BOOLEAN :
           GetAssociatedCountry(Client, qid, nats, ctrs, up)

SpecCountry == InitMemo /\ [][NextCountry]_vars

\* The entries of cache c under one tag.
TagEntries(c, tag) == {e \in Entries(c) : e[1] = tag}

\* C13: an associated-country call that misses the cache and returns gives the
\* nationality pairs when there are any, and then neither calls get_country
\* nor requests a country claim nor touches the country cache; when there is
\* no nationality pair it gives the country pairs.
C13_TwoTierFallback ==
    (lastLookup.op = "associated_country" /\ lastLookup.uncached /\ ~lastLookup.raised) =>
        IF lastLookup.nationality.list # << >>
        THEN /\ lastLookup.value = lastLookup.nationality
             /\ ~lastLookup.countryCalled
             /\ \A rq \in lastLookup.reqs : rq[2] # COUNTRY
             /\ TagEntries(mem[lastLookup.proc], "entity_country")
                  = TagEntries(lastLookup.before, "entity_country")
        ELSE /\ lastLookup.countryCalled
             /\ lastLookup.value = lastLookup.country

\* An uncached call answered from the nationality, the country never looked up.
C13_Witness ==
    /\ lastLookup.op = "associated_country"
    /\ lastLookup.uncached /\ ~lastLookup.raised
    /\ lastLookup.nationality.list # << >>
    /\ lastLookup.value = lastLookup.nationality
    /\ TagEntries(mem[lastLookup.proc], "entity_country") = {}

\* An uncached call on an entity without nationality, answered from the country.
C13_WitnessFallback ==
    /\ lastLookup.op = "associated_country"
    /\ lastLookup.uncached /\ ~lastLookup.raised
    /\ lastLookup.nationality.list = << >>
    /\ lastLookup.value.list # << >>

-----------------------------------------------------------------------------
(* Eviction.                                                               *)

\* C14: no operation on a store removes a (tag, key): the pairs the store held
\* before its last get, merge or load are all still held after it.
C14_NoEviction ==
    lastOp.proc # "none" =>
        EntryKeys(lastOp.before) \subseteq EntryKeys(mem[lastOp.proc])

\* The same for the operations of src/wiki_utils/cache.py alone.
NoEvictionWikiUtils ==
    (lastOp.proc # "none" /\ lastOp.op # "merge_rev1") =>
        EntryKeys(lastOp.before) \subseteq EntryKeys(mem[lastOp.proc])

-----------------------------------------------------------------------------
(* save_cache_to_file(filepath, tags) with and without a path.             *)

\* _write_json(data, filepath) on the file f: os.makedirs(os.path.dirname(
\* filepath)) is called when that directory "does not exist", which is the
\* case of the empty dirname of a bare file name, and makedirs("") raises.
write_json_at(data, filepath, f) ==
    IF filepath = BarePath
    THEN [file |-> f, error |-> "FileNotFoundError"]
    ELSE [file |-> write_json(data), error |-> "none"]

\* Cached.save_cache_to_file(filepath, tags) of a store with cache c and
\* cache_filepath cfp: the file and the cache after the call, and the
\* exception that left it.
save_cache_to_file_at(c, cfp, filepath, tags, f) ==
    LET path == IF filepath # NoPath THEN filepath ELSE cfp
    IN  IF path = NoPath
        THEN [file |-> f, cache |-> c, error |-> "ValueError"]
        ELSE LET r == get_caches(c, tags)
                 w == write_json_at(r.out, path, f)
             IN  [file |-> w.file, cache |-> r.cache, error |-> w.error]

\* WikiClient.save_cache_to_file(filepath, tags) (src/utils.py): open(filepath,
\* "w") and json.dump, no directory is made.
client_save_cache_to_file(c, cfp, filepath, tags, f) ==
    LET path == IF filepath # NoPath THEN filepath ELSE cfp
    IN  IF path = NoPath
        THEN [file |-> f, cache |-> c, error |-> "ValueError"]
        ELSE LET r == get_caches(c, tags)
             IN  [file |-> write_json(r.out), cache |-> r.cache, error |-> "none"]

\* store.save_cache_to_file(filepath, tags); rev tells whose method it is
SaveCache(p, rev, filepath, tags) ==
    /\ pc[p] = "idle"
    /\ nOps < MaxOps
    /\ nOps' = nOps + 1
    /\ LET r == IF rev = "Cached"
                THEN save_cache_to_file_at(mem[p], cache_filepath[p], filepath, tags, file)
                ELSE client_save_cache_to_file(mem[p], cache_filepath[p], filepath, tags, file)
       IN  /\ mem' = [mem EXCEPT ![p] = r.cache]
           /\ file' = r.file
           /\ lastOp' = [op |-> "save_at", proc |-> p, tag |-> NoTag, arg |-> EmptyCache,
                         before |-> mem[p], rev |-> rev, filepath |-> filepath,
                         tags |-> tags, cfp |-> cache_filepath[p], fileBefore |-> file,
                         error |-> r.error]
           /\ lastSave' = IF r.error = "none" /\ tags.none
                          THEN [by |-> p, content |-> mem[p]] ELSE lastSave
    /\ UNCHANGED <<pc, syncVars, nPuts, memoVars, auxVars, walkVars>>

SavePaths == {NoPath, DirPath, BarePath}

\* One store constructed without a path, one not yet constructed; no file.
InitSave == InitMemo

NextSave ==
    \/ \E tag \in SyncTagArgs : Construct("p2", tag)
    \/ \E p \in Procs, tag \in Tags, key \in Keys, value \in PutValues : Put(p, tag, key, value)
    \/ \E p \in Procs, filepath \in SavePaths, tags \in SaveTags :
           SaveCache(p, "Cached", filepath, tags)
    \/ \E p \in Procs, filepath \in SavePaths, tags \in SaveTags :
           SaveCache(p, "WikiClient", filepath, tags)

SpecSave == InitSave /\ [][NextSave]_vars

\* C15: on a store constructed without a path, save_cache_to_file without a
\* path raises the configuration error, writes no file and leaves the cache as
\* it was; with a path it writes the cache to the file.
C15_SaveWithoutPath ==
    (lastOp.op = "save_at" /\ lastOp.cfp = NoPath) =>
        IF lastOp.filepath = NoPath
        THEN /\ lastOp.error = "ValueError"
             /\ file = lastOp.fileBefore
             /\ mem[lastOp.proc] = lastOp.before
        ELSE /\ lastOp.error = "none"
             /\ file.exists
             /\ lastOp.tags.none => file.data = JsonValue(lastOp.before)

\* The first half alone: without any path the call fails cleanly.
SaveWithoutPathFailsCleanly ==
    (lastOp.op = "save_at" /\ lastOp.cfp = NoPath /\ lastOp.filepath = NoPath) =>
        /\ lastOp.error = "ValueError"
        /\ file = lastOp.fileBefore
        /\ mem[lastOp.proc] = lastOp.before

-----------------------------------------------------------------------------
(* SpecLock: sync_with_file with its failing exits.                        *)

\* Content of a file that json.load rejects (written by something else, or
\* left truncated by a failed json.dump).
Malformed == [malformed |-> TRUE]

FileReadable == file.exists /\ file.data # Malformed

\* Leaving `with self._cache_filelock:` held.  FileLock.__exit__ releases the
\* lock whether or not an exception leaves the block.
with_exit_no_finally(holder, raising) == IF raising THEN holder ELSE "free"

with_exit(holder, raising) == "free"

\* The record of a sync_with_file call that an exception left.
SyncFailed(p, error) ==
    [op |-> "sync_failed", proc |-> p, tag |-> syncTag[p], arg |-> EmptyCache,
     before |-> EmptyCache, error |-> error]

\* sync_with_file called while another process holds the lock: acquire() polls
SyncBlock(p, tag) ==
    /\ pc[p] = "idle"
    /\ lock \notin {"free", p}
    /\ nSyncs < MaxSyncs
    /\ nSyncs' = nSyncs + 1
    /\ pc' = [pc EXCEPT ![p] = "waiting"]
    /\ syncTag' = [syncTag EXCEPT ![p] = tag]
    /\ lastOp' = SyncOp(p)
    /\ UNCHANGED <<mem, file, lock, acq, lastSync, nPuts, lastSave, nOps, memoVars,
                   auxVars, walkVars>>

\* the polling acquire() gets the lock
SyncAcquireWaiting(p) ==
    /\ pc[p] = "waiting"
    /\ lock = "free"
    /\ lock' = p
    /\ pc' = [pc EXCEPT ![p] = "locked"]
    /\ acq' = [acq EXCEPT ![p] = [mem |-> mem[p], file |-> file.data]]
    /\ UNCHANGED <<mem, file, syncTag, lastSync, nSyncs, nPuts, histVars, memoVars,
                   auxVars, walkVars>>

\* the lock is still held when the FileLock's timeout ends: acquire() raises
\* Timeout, the with block is never entered
SyncTimeout(p) ==
    /\ pc[p] = "waiting"
    /\ lock # "free"
    /\ pc' = [pc EXCEPT ![p] = "idle"]
    /\ lastOp' = SyncFailed(p, "Timeout")
    /\ syncTag' = [syncTag EXCEPT ![p] = NoTag]
    /\ UNCHANGED <<mem, file, lock, acq, lastSync, nSyncs, nPuts, lastSave, nOps,
                   memoVars, auxVars, walkVars>>

\* update_cache_from_file raises inside the with block: the file is gone or is
\* not JSON
SyncLoadFail(p) ==
    /\ pc[p] = "locked"
    /\ ~FileReadable
    /\ lock' = with_exit(p, TRUE)
    /\ pc' = [pc EXCEPT ![p] = "idle"]
    /\ lastOp' = SyncFailed(p, IF file.exists THEN "JSONDecodeError" ELSE "FileNotFoundError")
    /\ syncTag' = [syncTag EXCEPT ![p] = NoTag]
    /\ acq' = [acq EXCEPT ![p] = [mem |-> EmptyCache, file |-> EmptyCache]]
    /\ UNCHANGED <<mem, file, lastSync, nSyncs, nPuts, lastSave, nOps, memoVars,
                   auxVars, walkVars>>

\* save_cache_to_file raises inside the with block: open() fails and the file
\* stays as it was, or json.dump fails after open() has truncated it
SyncSaveFail(p, truncated) ==
    /\ pc[p] = "loaded"
    /\ mem' = [mem EXCEPT ![p] = get_caches(mem[p], TagStr(syncTag[p])).cache]
    /\ file' = IF truncated THEN [exists |-> TRUE, data |-> Malformed] ELSE file
    /\ lock' = with_exit(p, TRUE)
    /\ pc' = [pc EXCEPT ![p] = "idle"]
    /\ lastOp' = SyncFailed(p, IF truncated THEN "TypeError" ELSE "OSError")
    /\ lastSave' = IF truncated THEN NoSave ELSE lastSave
    /\ syncTag' = [syncTag EXCEPT ![p] = NoTag]
    /\ acq' = [acq EXCEPT ![p] = [mem |-> EmptyCache, file |-> EmptyCache]]
    /\ UNCHANGED <<lastSync, nSyncs, nPuts, nOps, memoVars, auxVars, walkVars>>

\* something else rewrites or removes the cache file
FileDamaged(gone) ==
    /\ FileReadable
    /\ file' = IF gone THEN [exists |-> FALSE, data |-> EmptyCache]
               ELSE [exists |-> TRUE, data |-> Malformed]
    /\ lastSave' = NoSave
    /\ UNCHANGED <<mem, pc, syncVars, nPuts, lastOp, nOps, memoVars, auxVars, walkVars>>

\* The steps of p's running sync_with_file call.
SyncStep(p) ==
    \/ SyncAcquireWaiting(p)
    \/ FileReadable /\ SyncLoad(p)
    \/ SyncLoadFail(p)
    \/ SyncSave(p)
    \/ \E truncated \in BOOLEAN : SyncSaveFail(p, truncated)
    \/ SyncRelease(p)

InitLock == InitSync /\ file.exists

NextLock ==
    \/ \E p \in Procs : FileReadable /\ Construct(p, NoTag)
    \/ \E p \in Procs, value \in PutValues : Put(p, "t1", "k1", value)
    \/ \E p \in Procs : SyncAcquire(p, NoTag)
    \/ \E p \in Procs : SyncBlock(p, NoTag)
    \/ \E p \in Procs : SyncTimeout(p)
    \/ \E p \in Procs : SyncStep(p)
    \/ \E gone \in BOOLEAN : FileDamaged(gone)

SpecLock == InitLock /\ [][NextLock]_vars

\* A call that has started goes on: each process takes the next step of its
\* sync_with_file when it has one.
SpecLockFair == SpecLock /\ \A p \in Procs : WF_vars(SyncStep(p))

\* C16: a process holds the lock only inside the with block of its
\* sync_with_file, so that once the call has ended, normally or by an exception
\* of the load or of the save, it does not hold it; every holder gives the
\* lock up, and a process waiting for the lock gets it unless its timeout ends
\* first.
C16_LockReleasedOnExit ==
    /\ [](\A p \in Procs : lock = p => pc[p] \in {"locked", "loaded", "saved"})
    /\ \A p \in Procs : (lock = p) ~> (lock # p)
    /\ \A q \in Procs : (pc[q] = "waiting") ~>
                            (pc[q] = "locked" \/ (lastOp.op = "sync_failed" /\ lastOp.proc = q))

\* A sync_with_file was left by an exception of its load or save, and the
\* other process holds the lock now.
C16_Witness ==
    \E p, q \in Procs :
        /\ p # q
        /\ lastOp.op = "sync_failed" /\ lastOp.proc = p /\ lastOp.error # "Timeout"
        /\ pc[p] = "idle"
        /\ lock = q

-----------------------------------------------------------------------------
(* SpecConstruct: construction with a path, the file present or missing.   *)

\* Cached.__init__(cache_filepath, tag) of src/wiki_utils/cache.py with any
\* path: an existing file is loaded, a missing one is written from the new
\* cache; an exception of that write leaves the constructor.
ConstructAt(p, filepath, tag) ==
    /\ pc[p] = "new"
    /\ filepath # NoPath
    /\ LET r == IF file.exists
                THEN [file |-> file, cache |-> update_cache_from_file(EmptyCache, file, tag),
                      error |-> "none"]
                ELSE save_cache_to_file_at(EmptyCache, filepath, filepath, TagStr(tag), file)
       IN  /\ file' = r.file
           /\ IF r.error = "none"
              THEN /\ mem' = [mem EXCEPT ![p] = r.cache]
                   /\ pc' = [pc EXCEPT ![p] = "idle"]
                   /\ cache_filepath' = [cache_filepath EXCEPT ![p] = filepath]
              ELSE UNCHANGED <<mem, pc, cache_filepath>>
           /\ lastOp' = [op |-> "construct_at", proc |-> p, tag |-> tag, arg |-> EmptyCache,
                         before |-> EmptyCache, filepath |-> filepath,
                         missing |-> ~file.exists, error |-> r.error]
    /\ lastSave' = IF file.exists THEN lastSave ELSE NoSave
    /\ UNCHANGED <<syncVars, nPuts, nOps, memoVars, lastLookup, walkVars>>

\* WikiClient.__init__(cache_filepath, tag) (src/utils.py on src/cache.py) when
\* the file is missing: update_cache_from_file is called unconditionally and
\* open() raises.
ConstructRev1Missing(p, tag) ==
    /\ pc[p] = "new"
    /\ ~file.exists
    /\ lastOp' = [op |-> "construct_rev1", proc |-> p, tag |-> tag, arg |-> EmptyCache,
                  before |-> EmptyCache, filepath |-> DirPath, missing |-> TRUE,
                  error |-> "FileNotFoundError"]
    /\ UNCHANGED <<storeVars, syncVars, nPuts, lastSave, nOps, memoVars, auxVars, walkVars>>

ConstructPaths == {DirPath, BarePath}

InitConstruct == InitSync

NextConstruct ==
    \/ \E p \in Procs, filepath \in ConstructPaths, tag \in SyncTagArgs :
           ConstructAt(p, filepath, tag)
    \/ \E p \in Procs, tag \in SyncTagArgs : ConstructRev1(p, tag)
    \/ \E p \in Procs, tag \in SyncTagArgs : ConstructRev1Missing(p, tag)
    \/ \E p \in Procs, tag \in Tags, value \in PutValues : Put(p, tag, "k1", value)
    \/ \E p \in Procs : SaveCache(p, "Cached", NoPath, NoTags)

SpecConstruct == InitConstruct /\ [][NextConstruct]_vars

\* The last operation was a construction with a path at which no file was.
ConstructedOnMissing ==
    /\ lastOp.op \in {"construct_at", "construct_rev1"}
    /\ lastOp.before = EmptyCache
    /\ "missing" \in DOMAIN lastOp
    /\ lastOp.missing

\* C17: a construction with a path at which no file exists returns, the file
\* then exists and holds no entry, and the new store holds no entry, whether
\* or not a tag is given.
C17_ConstructOnMissingFile ==
    ConstructedOnMissing =>
        /\ lastOp.error = "none"
        /\ pc[lastOp.proc] = "idle"
        /\ file.exists
        /\ Entries(file.data) = {}
        /\ Entries(mem[lastOp.proc]) = {}

\* The constructions that do return leave a file and a store without entries.
ReturnedConstructionIsEmpty ==
    (ConstructedOnMissing /\ lastOp.error = "none") =>
        /\ pc[lastOp.proc] = "idle"
        /\ file.exists
        /\ Entries(file.data) = {}
        /\ Entries(mem[lastOp.proc]) = {}

-----------------------------------------------------------------------------
(* Reads.                                                                  *)

\* C18: a _cache_get(tag, key) leaves the cache as it was, the set of its tags
\* included.
C18_GetNoSideEffect ==
    lastOp.op = "get" =>
        /\ mem[lastOp.proc] = lastOp.before
        /\ DOMAIN mem[lastOp.proc] = DOMAIN lastOp.before

\* The entries, as opposed to the tags, are left as they were by a read.
GetKeepsEntries ==
    lastOp.op = "get" => Entries(mem[lastOp.proc]) = Entries(lastOp.before)

-----------------------------------------------------------------------------
(* The file after sync_with_file.                                          *)

\* p has written the file in its sync_with_file and is about to return: the
\* file is what JSON makes of p's cache, and each entry of the cache was in it
\* before the call or is an entry of the file p read.
SyncProjection(p) ==
    /\ file.data = JsonValue(mem[p])
    /\ \A e \in Entries(mem[p]) :
           e \in Entries(acq[p].mem) \/ e \in Entries(acq[p].file)

\* C19: when sync_with_file returns, with or without a tag, the file equals the
\* store's cache and every entry of the cache was held before or read from the
\* file under the same tag and key.
C19_FileIsProjection ==
    \A p \in Procs : pc[p] = "saved" => SyncProjection(p)

\* The same for sync_with_file() without a tag.
FileIsProjectionNoTag ==
    \A p \in Procs : (pc[p] = "saved" /\ syncTag[p] = NoTag) => SyncProjection(p)

-----------------------------------------------------------------------------
(* The walk on graphs with cycles.                                         *)

\* The only cache key a walk without instance-of target may have written.
InstanceOfKey == <<"entity_prop", CallKey([args |-> <<Str(Entity), Str(INSTANCE_OF)>>,
                                           kwargs |-> << >>])>>

\* C20: when a terminal category can be reached from the instance-of targets,
\* cycles or not, the walk ends and returns a terminal category (unless a
\* request fails); and for an entity without instance-of target it returns
\* None without any subclass-of lookup.
C20_ReachableTerminalFound ==
    /\ (wpc = "walking" /\ candidates \cap Reachable # {}) ~>
           ((wpc = "done" /\ result \in candidates) \/ wpc = "raised")
    /\ []((wpc = "done" /\ graph.inst = << >>) =>
             /\ result = "None"
             /\ nFetch = 0
             /\ EntryKeys(mem[Client]) \subseteq {InstanceOfKey})

\* A walk that went through a class on a subclass-of cycle and returned a
\* terminal category.
C20_Witness ==
    /\ wpc = "done"
    /\ result \in candidates
    /\ \E n \in Reachable : OnCycle(n) /\ n \notin candidates
    /\ nFetch >= 2

\* On every graph of SpecWalk, branching ones included: a walk that returned
\* did not miss a terminal category that can be reached.
ReachableTerminalNotMissed ==
    (wpc = "done" /\ candidates \cap Reachable # {}) => result \in candidates

====
